---- MODULE Spec2Model ----
(***************************************************************************)
(* The hybrid MLFQ + Stride process scheduler of xv6-public/proc.c as a    *)
(* state machine.  The process table, the MLFQ level queues and pins, the  *)
(* Stride heap and run list, the sleep list and the free list live in the  *)
(* record ptable, as they do in the source.  Every action is one critical  *)
(* section of ptable.lock (or one unlocked step of allocproc/fork/sleep).  *)
(***************************************************************************)
EXTENDS Integers, Sequences, FiniteSets, TLC

(***************************************************************************)
(* Tunables of param.h / scheduler.h / proc.h.  The headers are not part   *)
(* of the sources at hand; the values are small ones that respect what the *)
(* design document says about them (TQ and TA increase with the level,     *)
(* RESERVE = 20, STRD(t) = LARGE / t).                                      *)
(***************************************************************************)
NPROC == 3
NCPU == 2
QSIZE == 3
BOOSTINTERVAL == 6
RESERVE == 20
LARGE == 100
BARRIER == 5
MAXINT == 2147483647

TQ(l) == l + 1
TA(l) == l + 2
STRD(t) == LARGE \div t

(***************************************************************************)
(* Bounds of the model (not program constants).                            *)
(***************************************************************************)
MaxOps == 7          \* operations explored from boot, NCPU processors
MaxOpsUP == 10       \* operations explored from boot, one processor
MaxOpsDeep == 16     \* operations explored from boot, one processor, fewer calls
HeapProcs == 5       \* processes of the heap-only specification
MaxPass == 2         \* passes drawn there: 0 .. MaxPass
MaxOpsWait == 12     \* operations explored in the fork/exit/wait workload
MaxCallsSMP == 3     \* system calls and idle iterations explored on two processors
MaxOpsShare == 48    \* operations explored in the proportional-share workload

Procs == 1 .. NPROC
Levels == 0 .. (QSIZE - 1)
NONE == 0                       \* the null pointer; also "lock is free"
initproc == 1                   \* the slot userinit takes
CHAN == NPROC + 1               \* a sleep channel other than a process
Chans == {CHAN}
Shares == {0, 20, 60, 81}       \* arguments tried for set_cpu_share

(***************************************************************************)
(* List nodes.  A process p stands for &p->queue; the list headers are     *)
(* numbered after the processes.                                           *)
(***************************************************************************)
QHead(l) == NPROC + 1 + l
RunHead == NPROC + QSIZE + 1
SleepHead == NPROC + QSIZE + 2
FreeHead == NPROC + QSIZE + 3
Heads == {QHead(l) : l \in Levels} \cup {RunHead, SleepHead, FreeHead}

VARIABLES
  ptable,     \* lock, proc[], mlfq, stride, sleep, free
  nextpid,    \* the pid allocator
  cpus,       \* cpus[c] = c->proc and the position of that CPU's kernel thread
  lk,         \* a spinlock other than ptable.lock (a sleep/wakeup condition lock)
  panicked,   \* "" or the message of the panic that halted the kernel
  last,       \* the operation that just ran, its argument and return value
  ncpu,       \* the number of processors found at boot
  budget      \* operations left to explore

vars == <<ptable, nextpid, cpus, lk, panicked, last, ncpu, budget>>

InSeq(s, x) == \E i \in 1 .. Len(s) : s[i] = x
Remove(s, x) == SelectSeq(s, LAMBDA y : y # x)
IndexOf(s, x) == CHOOSE i \in 1 .. Len(s) : s[i] = x
Min(a, b) == IF a < b THEN a ELSE b

(***************************************************************************)
(* list.h: a cyclic doubly-linked list with a sentinel header, kept here   *)
(* as the sequence of the processes linked after the header.               *)
(***************************************************************************)
List(t, h) ==
  IF h = RunHead THEN t.stride.run
  ELSE IF h = SleepHead THEN t.sleep
  ELSE IF h = FreeHead THEN t.free
  ELSE t.mlfq.queue[h - NPROC - 1]

SetList(t, h, s) ==
  IF h = RunHead THEN [t EXCEPT !.stride.run = s]
  ELSE IF h = SleepHead THEN [t EXCEPT !.sleep = s]
  ELSE IF h = FreeHead THEN [t EXCEPT !.free = s]
  ELSE [t EXCEPT !.mlfq.queue[h - NPROC - 1] = s]

list_empty(t, h) == List(t, h) = <<>>
list_add(t, p, h) == SetList(t, h, <<p>> \o List(t, h))
list_add_tail(t, p, h) == SetList(t, h, Append(List(t, h), p))

\* list_del unlinks the node from whichever list holds it.
list_del(t, p) ==
  [t EXCEPT !.mlfq.queue = [l \in Levels |-> Remove(@[l], p)],
            !.stride.run = Remove(@, p),
            !.sleep = Remove(@, p),
            !.free = Remove(@, p)]

\* n->next: n is a process's node or a header.  The next pointer of a node
\* that is on no list is not read by the code; NONE stands for it.
list_next(t, n) ==
  IF n \in Heads
  THEN IF List(t, n) = <<>> THEN n ELSE List(t, n)[1]
  ELSE LET hs == {h \in Heads : InSeq(List(t, h), n)} IN
       IF hs = {} THEN NONE
       ELSE LET h == CHOOSE x \in hs : TRUE
                s == List(t, h)
                i == IndexOf(s, n)
            IN IF i = Len(s) THEN h ELSE s[i + 1]

list_bulk_move_tail(t, src, dst) ==
  SetList(SetList(t, dst, List(t, dst) \o List(t, src)), src, <<>>)

(***************************************************************************)
(* The Stride heap: minheap[1 .. size], size = Len(minheap).               *)
(***************************************************************************)
getminpass(t) ==
  IF Len(t.stride.minheap) > 0 THEN t.proc[t.stride.minheap[1]].pass ELSE MAXINT

RECURSIVE siftup(_, _, _, _)
siftup(h, pr, p, i) ==
  IF i # 1 /\ pr[p].pass < pr[h[i \div 2]].pass
  THEN siftup([h EXCEPT ![i] = h[i \div 2]], pr, p, i \div 2)
  ELSE [h EXCEPT ![i] = p]

pushheap(t, p) ==
  [t EXCEPT !.stride.minheap = siftup(Append(@, p), t.proc, p, Len(@) + 1)]

\* variant of siftdown: the right child is never looked at
RECURSIVE siftdown_left(_, _, _, _, _, _)
siftdown_left(h, pr, lst, parent, child, size) ==
  IF child <= size
  THEN IF pr[lst].pass <= pr[h[child]].pass
       THEN [h EXCEPT ![parent] = lst]
       ELSE siftdown_left([h EXCEPT ![parent] = h[child]], pr, lst, child, child * 2, size)
  ELSE [h EXCEPT ![parent] = lst]

RECURSIVE siftdown(_, _, _, _, _, _)
siftdown(h, pr, lst, parent, child, size) ==
  IF child <= size
  THEN LET c == IF child < size /\ pr[h[child]].pass > pr[h[child + 1]].pass
                THEN child + 1 ELSE child
       IN IF pr[lst].pass <= pr[h[c]].pass
          THEN [h EXCEPT ![parent] = lst]
          ELSE siftdown([h EXCEPT ![parent] = h[c]], pr, lst, c, c * 2, size)
  ELSE [h EXCEPT ![parent] = lst]

\* popheap returns the minimum; popheap_t is the table it leaves.
popheap(t) == t.stride.minheap[1]

popheap_t(t) ==
  LET h == t.stride.minheap
      size == Len(h) - 1
  IN [t EXCEPT !.stride.minheap =
        SubSeq(siftdown(h, t.proc, h[Len(h)], 1, 2, size), 1, size)]

(***************************************************************************)
(* MLFQ queues and pins.                                                   *)
(***************************************************************************)
enqueue(t, level, p) == list_add_tail(t, p, QHead(level))

concatqueue(t, src, dst) ==
  LET srcq == QHead(src)
      dstq == QHead(dst)
      spin == t.mlfq.pin[src]
      t1 == IF list_empty(t, dstq) /\ spin # srcq
            THEN [t EXCEPT !.mlfq.pin[dst] = spin] ELSE t
      t2 == [t1 EXCEPT !.mlfq.pin[src] = srcq]
  IN list_bulk_move_tail(t2, srcq, dstq)

\* variant of dequeue: the pin is left where it was
dequeue_keeps_pin(t, p) == list_del(t, p)

dequeue(t, p) ==
  LET l == t.proc[p].privlevel
      t1 == IF t.mlfq.pin[l] = p
            THEN [t EXCEPT !.mlfq.pin[l] = list_next(t, p)] ELSE t
  IN list_del(t1, p)

\* mlfqselect's do-while over level l: the header and the queued nodes in the
\* order they are visited, starting at pin[l].  (That pin[l] is a node of the
\* ring is the pin-validity property; a walk from a pin outside it is not
\* modelled and starts at the header.)
ring(t, l) ==
  LET r == <<QHead(l)>> \o t.mlfq.queue[l]
      k == IF InSeq(r, t.mlfq.pin[l]) THEN IndexOf(r, t.mlfq.pin[l]) ELSE 1
  IN SubSeq(r, k, Len(r)) \o SubSeq(r, 1, k - 1)

\* variant of firstrunnable: the walk starts at the head of the level's
\* queue, wherever the pin is
firstrunnable_from_head(t, l) ==
  LET q == t.mlfq.queue[l]
      hits == {i \in 1 .. Len(q) : t.proc[q[i]].state = "RUNNABLE"}
  IN IF hits = {} THEN NONE
     ELSE q[CHOOSE i \in hits : \A j \in hits : i <= j]

firstrunnable(t, l) ==
  LET r == ring(t, l)
      hits == {i \in 1 .. Len(r) :
                 r[i] \notin Heads /\ t.proc[r[i]].state = "RUNNABLE"}
  IN IF hits = {} THEN NONE
     ELSE r[CHOOSE i \in hits : \A j \in hits : i <= j]

RECURSIVE mlfqselect_level(_, _)
mlfqselect_level(t, l) ==
  IF l >= QSIZE THEN QSIZE
  ELSE IF firstrunnable(t, l) # NONE THEN l
  ELSE mlfqselect_level(t, l + 1)

\* mlfqselect returns the process (or NONE); mlfqselect_t is the table it
\* leaves (the pin of the level is set to the chosen node).
mlfqselect(t) ==
  LET l == mlfqselect_level(t, 0)
  IN IF l = QSIZE THEN NONE ELSE firstrunnable(t, l)

mlfqselect_t(t) ==
  LET l == mlfqselect_level(t, 0)
  IN IF l = QSIZE THEN t
     ELSE [t EXCEPT !.mlfq.pin[l] = firstrunnable(t, l)]

\* the priority boost of mlfqlogic: levels 1 .. baselevel, then the sleep list
RECURSIVE boostlevels(_, _)
boostlevels(t, l) ==
  IF l > QSIZE - 1 THEN t
  ELSE LET q == t.mlfq.queue[l]
           t1 == [t EXCEPT !.proc =
                    [x \in Procs |->
                       IF InSeq(q, x)
                       THEN [@[x] EXCEPT !.privlevel = 0, !.ticks = 0]
                       ELSE @[x]]]
       IN boostlevels(concatqueue(t1, l, 0), l + 1)

boostsleep(t) ==
  [t EXCEPT !.proc =
     [x \in Procs |->
        IF InSeq(t.sleep, x)
        THEN [@[x] EXCEPT !.privlevel = 0, !.ticks = 0]
        ELSE @[x]]]

boost(t) ==
  IF t.mlfq.ticks % BOOSTINTERVAL = 0 THEN boostsleep(boostlevels(t, 1)) ELSE t

\* variant of mlfqcase: a RUNNABLE process is demoted when its ticks are a
\* multiple of the time quantum instead of the time allotment
mlfqcase_demotes_at_quantum(t, p) ==
  LET l == t.proc[p].privlevel
      baselevel == QSIZE - 1
      st == t.proc[p].state
  IN IF st = "RUNNABLE"
     THEN LET ta == [t EXCEPT !.proc[p].ticks = @ + 1] IN
          IF l < baselevel /\ ta.proc[p].ticks % TQ(l) = 0
          THEN LET tb == dequeue(ta, p)
                   tc == [tb EXCEPT !.proc[p].privlevel = @ + 1]
                   td == enqueue(tc, l + 1, p)
               IN [td EXCEPT !.proc[p].ticks = 0]
          ELSE ta
     ELSE IF st = "SLEEPING"
     THEN IF l < baselevel /\ t.proc[p].ticks >= TA(l)
          THEN [t EXCEPT !.proc[p].privlevel = @ + 1, !.proc[p].ticks = 0]
          ELSE [t EXCEPT !.proc[p].ticks = (@ \div TQ(l)) * TQ(l)]
     ELSE t

\* variant of mlfqcase: the pin is not advanced at the end of a quantum
mlfqcase_no_rotate(t, p) ==
  LET l == t.proc[p].privlevel
      baselevel == QSIZE - 1
      st == t.proc[p].state
  IN IF st = "RUNNABLE"
     THEN LET ta == [t EXCEPT !.proc[p].ticks = @ + 1] IN
          IF l < baselevel /\ ta.proc[p].ticks % TA(l) = 0
          THEN LET tb == dequeue(ta, p)
                   tc == [tb EXCEPT !.proc[p].privlevel = @ + 1]
                   td == enqueue(tc, l + 1, p)
               IN [td EXCEPT !.proc[p].ticks = 0]
          ELSE ta
     ELSE IF st = "SLEEPING"
     THEN IF l < baselevel /\ t.proc[p].ticks >= TA(l)
          THEN [t EXCEPT !.proc[p].privlevel = @ + 1, !.proc[p].ticks = 0]
          ELSE [t EXCEPT !.proc[p].ticks = (@ \div TQ(l)) * TQ(l)]
     ELSE t

\* the switch of mlfqlogic on the state of the process that just ran
mlfqcase(t, p) ==
  LET l == t.proc[p].privlevel
      baselevel == QSIZE - 1
      st == t.proc[p].state
  IN IF st = "RUNNABLE"
     THEN LET ta == [t EXCEPT !.proc[p].ticks = @ + 1] IN
          IF l < baselevel /\ ta.proc[p].ticks % TA(l) = 0
          THEN LET tb == dequeue(ta, p)
                   tc == [tb EXCEPT !.proc[p].privlevel = @ + 1]
                   td == enqueue(tc, l + 1, p)
               IN [td EXCEPT !.proc[p].ticks = 0]
          ELSE IF ta.proc[p].ticks % TQ(l) = 0
               THEN [ta EXCEPT !.mlfq.pin[l] = list_next(ta, p)]
               ELSE ta
     ELSE IF st = "SLEEPING"
     THEN IF l < baselevel /\ t.proc[p].ticks >= TA(l)
          THEN [t EXCEPT !.proc[p].privlevel = @ + 1, !.proc[p].ticks = 0]
          ELSE [t EXCEPT !.proc[p].ticks = (@ \div TQ(l)) * TQ(l)]
     ELSE t

mlfqpanic(t, p) == t.proc[p].state \notin {"RUNNABLE", "SLEEPING", "ZOMBIE"}

mlfqlogic(t, p) == boost(mlfqcase([t EXCEPT !.mlfq.ticks = @ + 1], p))

Count(s, x) == Cardinality({i \in 1 .. Len(s) : s[i] = x})

\* the overflow rebase of stridelogic: every heap slot and every run-list node
rebase(t, minpass) ==
  [t EXCEPT !.proc =
     [x \in DOMAIN t.proc |->
        [@[x] EXCEPT !.pass =
           @ - minpass * (Count(t.stride.minheap, x) + Count(t.stride.run, x))]],
            !.mlfq.pass = @ - minpass]

\* variant of stridelogic: the pass of a Stride process that ran is not
\* advanced by its stride
stridelogic_no_advance(t, p) ==
  LET mlfqran == p = NONE \/ t.proc[p].type = "MLFQ"
      minpass == IF mlfqran THEN t.mlfq.pass ELSE t.proc[p].pass
      t1 == IF minpass > BARRIER THEN rebase(t, minpass) ELSE t
  IN IF mlfqran
     THEN [t1 EXCEPT !.mlfq.pass = @ + STRD(t1.mlfq.tickets)]
     ELSE IF t1.proc[p].state \in {"RUNNABLE", "SLEEPING"}
          THEN pushheap(t1, p)
          ELSE t1

\* variant of stridelogic: a Stride process that ran is advanced but not
\* pushed back onto the heap
stridelogic_no_push(t, p) ==
  LET mlfqran == p = NONE \/ t.proc[p].type = "MLFQ"
      minpass == IF mlfqran THEN t.mlfq.pass ELSE t.proc[p].pass
      t1 == IF minpass > BARRIER THEN rebase(t, minpass) ELSE t
  IN IF mlfqran
     THEN [t1 EXCEPT !.mlfq.pass = @ + STRD(t1.mlfq.tickets)]
     ELSE IF t1.proc[p].state \in {"RUNNABLE", "SLEEPING"}
          THEN [t1 EXCEPT !.proc[p].pass = @ + STRD(t1.proc[p].tickets)]
          ELSE t1

stridelogic(t, p) ==
  LET mlfqran == p = NONE \/ t.proc[p].type = "MLFQ"
      minpass == IF mlfqran THEN t.mlfq.pass ELSE t.proc[p].pass
      t1 == IF minpass > BARRIER THEN rebase(t, minpass) ELSE t
  IN IF mlfqran
     THEN [t1 EXCEPT !.mlfq.pass = @ + STRD(t1.mlfq.tickets)]
     ELSE IF t1.proc[p].state \in {"RUNNABLE", "SLEEPING"}
          THEN pushheap([t1 EXCEPT !.proc[p].pass = @ + STRD(t1.proc[p].tickets)], p)
          ELSE t1

\* scheduler(), from the return of swtch to the release of ptable.lock
scheduler_tail(t, p) ==
  stridelogic(IF t.proc[p].type = "MLFQ" THEN mlfqlogic(t, p) ELSE t, p)

\* variant of wake: a woken STRIDE process is pushed onto the heap again
wake_pushes(t, p) ==
  LET t1 == [list_del(t, p) EXCEPT !.proc[p].state = "RUNNABLE"]
  IN IF t1.proc[p].type = "MLFQ" THEN enqueue(t1, t1.proc[p].privlevel, p)
     ELSE pushheap(t1, p)

\* variant of wake: a woken MLFQ process goes to the head of its queue
wake_head(t, p) ==
  LET t1 == [list_del(t, p) EXCEPT !.proc[p].state = "RUNNABLE"]
  IN IF t1.proc[p].type = "MLFQ" THEN list_add(t1, p, QHead(t1.proc[p].privlevel))
     ELSE t1

\* the body of wakeup1's loop and of kill's wake-up
wake(t, p) ==
  LET t1 == [list_del(t, p) EXCEPT !.proc[p].state = "RUNNABLE"]
  IN IF t1.proc[p].type = "MLFQ" THEN enqueue(t1, t1.proc[p].privlevel, p) ELSE t1

RECURSIVE wakeup1_from(_, _, _)
wakeup1_from(t, chan, s) ==
  IF s = <<>> THEN t
  ELSE wakeup1_from(IF t.proc[Head(s)].chan = chan THEN wake(t, Head(s)) ELSE t,
                    chan, Tail(s))

wakeup1(t, chan) == wakeup1_from(t, chan, t.sleep)

freeproc(t, p) ==
  list_add([t EXCEPT !.proc[p].pid = 0, !.proc[p].parent = NONE,
                     !.proc[p].killed = 0, !.proc[p].tickets = 0,
                     !.proc[p].pass = 0, !.proc[p].ticks = 0,
                     !.proc[p].privlevel = 0, !.proc[p].state = "UNUSED"],
           p, FreeHead)

\* sleep(), from "Go to sleep" to the call of sched, ptable.lock held
sleep_body(t, p, chan) ==
  LET t1 == [t EXCEPT !.proc[p].chan = chan]
      t2 == IF t1.proc[p].type = "MLFQ" THEN dequeue(t1, p) ELSE list_del(t1, p)
  IN list_add([t2 EXCEPT !.proc[p].state = "SLEEPING"], p, SleepHead)

(***************************************************************************)
(* The state after pinit, userinit and every CPU's entry into scheduler(). *)
(***************************************************************************)
proc0 ==
  [state |-> "UNUSED", pid |-> 0, parent |-> NONE, children |-> <<>>,
   killed |-> 0, chan |-> 0, type |-> "MLFQ", privlevel |-> 0, ticks |-> 0,
   tickets |-> 0, pass |-> 0, context |-> "none"]

pinit ==
  [lock |-> NONE,
   proc |-> [p \in Procs |-> proc0],
   mlfq |-> [queue |-> [l \in Levels |-> <<>>],
             pin |-> [l \in Levels |-> QHead(l)],
             ticks |-> 0, pass |-> 0, tickets |-> 100],
   stride |-> [minheap |-> <<>>, run |-> <<>>],
   sleep |-> <<>>,
   free |-> [i \in 1 .. NPROC |-> i]]

userinit ==
  LET p == pinit.free[1]
      t1 == [list_del(pinit, p) EXCEPT !.proc[p].state = "EMBRYO",
                                       !.proc[p].pid = 1,
                                       !.proc[p].context = "forkret"]
  IN enqueue([t1 EXCEPT !.proc[p].state = "RUNNABLE"], t1.proc[p].privlevel, p)

Idle == [proc |-> NONE, pc |-> "scheduler", np |-> NONE]
Op(op, p, arg, ret) == [op |-> op, p |-> p, arg |-> arg, ret |-> ret]
NoOp == Op("init", NONE, 0, 0)

Boot(n, b) ==
  /\ ptable = userinit
  /\ nextpid = 2
  /\ ncpu = n
  /\ cpus = [c \in 1 .. n |-> Idle]
  /\ lk = NONE
  /\ panicked = ""
  /\ last = NoOp
  /\ budget = b

Init == Boot(NCPU, MaxOps)
InitUP == Boot(1, MaxOpsUP)

Running(c) == panicked = "" /\ cpus[c].pc = "user"
Free(t) == t.lock = NONE

\* sched() and the scheduler's half of the critical section: the process has
\* changed its own state and switches to the scheduler of CPU c, which runs
\* mlfqlogic and stridelogic and releases ptable.lock.
sched(c, t, p, op, arg, ret) ==
  IF t.proc[p].state = "RUNNING"
  THEN /\ panicked' = "sched running"
       /\ ptable' = t
       /\ last' = Op(op, p, arg, ret)
       /\ UNCHANGED <<nextpid, cpus, lk>>
  ELSE IF t.proc[p].type = "MLFQ" /\ mlfqpanic(t, p)
  THEN /\ panicked' = "mlfq wrong state"
       /\ ptable' = t
       /\ last' = Op(op, p, arg, ret)
       /\ UNCHANGED <<nextpid, cpus, lk>>
  ELSE /\ ptable' = [scheduler_tail(t, p) EXCEPT !.lock = NONE]
       /\ cpus' = [cpus EXCEPT ![c] = Idle]
       /\ last' = Op(op, p, arg, ret)
       /\ UNCHANGED <<nextpid, lk, panicked>>

\* variant of firstzombie: the first child, whatever its state
firstchild(t, p) ==
  IF t.proc[p].children = <<>> THEN NONE ELSE Head(t.proc[p].children)

\* wait()'s for(;;) loop, entered with ptable.lock held: by wait() itself
\* and again each time the sleeping caller is scheduled.
firstzombie(t, p) ==
  LET ch == t.proc[p].children
      z == {i \in 1 .. Len(ch) : t.proc[ch[i]].state = "ZOMBIE"}
  IN IF z = {} THEN NONE ELSE ch[CHOOSE i \in z : \A j \in z : i <= j]

waitloop(c, t, p) ==
  LET z == firstzombie(t, p) IN
  IF z # NONE
  THEN /\ ptable' = [freeproc([t EXCEPT !.proc[p].children = Remove(@, z)], z)
                       EXCEPT !.lock = NONE]
       /\ cpus' = [cpus EXCEPT ![c] = [proc |-> p, pc |-> "user", np |-> NONE]]
       /\ last' = Op("wait", p, z, t.proc[z].pid)
       /\ UNCHANGED <<nextpid, lk, panicked>>
  ELSE IF t.proc[p].children = <<>> \/ t.proc[p].killed = 1
  THEN /\ ptable' = [t EXCEPT !.lock = NONE]
       /\ cpus' = [cpus EXCEPT ![c] = [proc |-> p, pc |-> "user", np |-> NONE]]
       /\ last' = Op("wait", p, 0, -1)
       /\ UNCHANGED <<nextpid, lk, panicked>>
  ELSE sched(c, sleep_body([t EXCEPT !.proc[p].context = "wait"], p, p), p,
             "wait_sleep", 0, 0)

(***************************************************************************)
(* scheduler(): one iteration of CPU c's loop.  A process that is chosen   *)
(* resumes where it switched out and releases ptable.lock there (forkret,  *)
(* yield, sleep), or goes on in wait()'s loop with the lock still held.    *)
(***************************************************************************)
scheduler(c) ==
  /\ panicked = ""
  /\ cpus[c].pc = "scheduler"
  /\ Free(ptable)
  /\ LET t == ptable
         strideside == getminpass(t) < t.mlfq.pass
         p == IF strideside THEN popheap(t) ELSE mlfqselect(t)
         t1 == IF strideside THEN popheap_t(t) ELSE mlfqselect_t(t)
     IN IF p # NONE /\ t1.proc[p].state = "RUNNABLE"
        THEN LET t2 == IF t1.proc[p].type = "STRIDE"
                       THEN list_add(t1, p, RunHead) ELSE t1
                 t3 == [t2 EXCEPT !.proc[p].state = "RUNNING"]
                 ctx == t3.proc[p].context
             IN IF ctx = "wait"
                THEN waitloop(c, [t3 EXCEPT !.proc[p].chan = 0], p)
                ELSE /\ ptable' = IF ctx = "sleep"
                                  THEN [t3 EXCEPT !.proc[p].chan = 0] ELSE t3
                     /\ cpus' = [cpus EXCEPT ![c] =
                                   [proc |-> p,
                                    pc |-> IF ctx = "sleep" THEN "reacquire" ELSE "user",
                                    np |-> NONE]]
                     /\ last' = Op("run", p, 0, 0)
                     /\ UNCHANGED <<nextpid, lk, panicked>>
        ELSE /\ ptable' = stridelogic(t1, p)
             /\ last' = Op("idle", p, 0, 0)
             /\ UNCHANGED <<nextpid, cpus, lk, panicked>>

(***************************************************************************)
(* System calls of the process running on CPU c.                           *)
(***************************************************************************)
User(p) == [proc |-> p, pc |-> "user", np |-> NONE]

inctick(c) ==
  /\ Running(c) /\ Free(ptable)
  /\ LET p == cpus[c].proc IN
     /\ ptable' = [ptable EXCEPT !.proc[p].ticks = @ + 1]
     /\ last' = Op("inctick", p, 0, 0)
  /\ UNCHANGED <<nextpid, cpus, lk, panicked>>

\* variant of set_cpu_share_ret: the caller's own Stride tickets are not
\* counted as available
set_cpu_share_ret_ignores_own(t, p, share) ==
  IF share < 1 \/ share > 100 - RESERVE THEN -1
  ELSE IF t.mlfq.tickets - share >= RESERVE THEN 0 ELSE -1

\* set_cpu_share: the table it leaves and the value it returns
set_cpu_share_ret(t, p, share) ==
  IF share < 1 \/ share > 100 - RESERVE THEN -1
  ELSE LET remain == t.mlfq.tickets
                     + (IF t.proc[p].type = "STRIDE" THEN t.proc[p].tickets ELSE 0)
       IN IF remain - share >= RESERVE THEN 0 ELSE -1

\* variant of set_cpu_share_t: mlfq.tickets is decremented by the share,
\* whatever the caller held
set_cpu_share_t_decrements(t, p, share) ==
  IF set_cpu_share_ret(t, p, share) = -1 THEN t
  ELSE LET t1 == IF t.proc[p].type = "MLFQ"
                 THEN LET ta == dequeue(t, p)
                          tb == [ta EXCEPT !.proc[p].pass =
                                   Min(getminpass(ta), ta.mlfq.pass),
                                           !.proc[p].type = "STRIDE"]
                      IN list_add(tb, p, RunHead)
                 ELSE t
       IN [t1 EXCEPT !.mlfq.tickets = @ - share, !.proc[p].tickets = share]

\* variant of set_cpu_share_t: a new share is added to the tickets the
\* caller already holds
set_cpu_share_t_accumulates(t, p, share) ==
  IF set_cpu_share_ret(t, p, share) = -1 THEN t
  ELSE LET remain == t.mlfq.tickets
                     + (IF t.proc[p].type = "STRIDE" THEN t.proc[p].tickets ELSE 0)
           t1 == IF t.proc[p].type = "MLFQ"
                 THEN LET ta == dequeue(t, p)
                          tb == [ta EXCEPT !.proc[p].pass =
                                   Min(getminpass(ta), ta.mlfq.pass),
                                           !.proc[p].type = "STRIDE"]
                      IN list_add(tb, p, RunHead)
                 ELSE t
       IN [t1 EXCEPT !.mlfq.tickets = remain - share, !.proc[p].tickets = @ + share]

set_cpu_share_t(t, p, share) ==
  IF set_cpu_share_ret(t, p, share) = -1 THEN t
  ELSE LET remain == t.mlfq.tickets
                     + (IF t.proc[p].type = "STRIDE" THEN t.proc[p].tickets ELSE 0)
           t1 == IF t.proc[p].type = "MLFQ"
                 THEN LET ta == dequeue(t, p)
                          tb == [ta EXCEPT !.proc[p].pass =
                                   Min(getminpass(ta), ta.mlfq.pass),
                                           !.proc[p].type = "STRIDE"]
                      IN list_add(tb, p, RunHead)
                 ELSE t
       IN [t1 EXCEPT !.mlfq.tickets = remain - share, !.proc[p].tickets = share]

set_cpu_share(c, share) ==
  /\ Running(c) /\ Free(ptable)
  /\ LET p == cpus[c].proc IN
     /\ ptable' = set_cpu_share_t(ptable, p, share)
     /\ last' = Op("set_cpu_share", p, share, set_cpu_share_ret(ptable, p, share))
  /\ UNCHANGED <<nextpid, cpus, lk, panicked>>

\* allocproc, under ptable.lock: take the first free slot
fork_alloc(c) ==
  /\ Running(c) /\ Free(ptable)
  /\ LET p == cpus[c].proc IN
     IF list_empty(ptable, FreeHead)
     THEN /\ last' = Op("fork", p, 0, -1)
          /\ UNCHANGED <<ptable, nextpid, cpus, lk, panicked>>
     ELSE LET np == ptable.free[1] IN
          /\ ptable' = [list_del(ptable, np) EXCEPT !.proc[np].state = "EMBRYO",
                                                    !.proc[np].pid = nextpid,
                                                    !.proc[np].children = <<>>]
          /\ nextpid' = nextpid + 1
          /\ cpus' = [cpus EXCEPT ![c].pc = "fork", ![c].np = np]
          /\ last' = Op("allocproc", p, np, 0)
          /\ UNCHANGED <<lk, panicked>>

\* kalloc fails in allocproc, or copyuvm fails in fork: the slot goes back
\* to the free list, and ptable.lock is not taken
fork_fail(c) ==
  /\ panicked = "" /\ cpus[c].pc = "fork"
  /\ LET p == cpus[c].proc
         np == cpus[c].np
     IN /\ ptable' = list_add([ptable EXCEPT !.proc[np].state = "UNUSED"], np, FreeHead)
        /\ cpus' = [cpus EXCEPT ![c] = User(p)]
        /\ last' = Op("fork_fail", p, np, -1)
  /\ UNCHANGED <<nextpid, lk, panicked>>

fork(c) ==
  /\ panicked = "" /\ cpus[c].pc = "fork" /\ Free(ptable)
  /\ LET p == cpus[c].proc
         np == cpus[c].np
         t1 == [ptable EXCEPT !.proc[np].parent = p,
                              !.proc[p].children = Append(@, np),
                              !.proc[np].type = "MLFQ",
                              !.proc[np].context = "forkret",
                              !.proc[np].state = "RUNNABLE"]
     IN /\ ptable' = enqueue(t1, t1.proc[np].privlevel, np)
        /\ cpus' = [cpus EXCEPT ![c] = User(p)]
        /\ last' = Op("fork", p, np, ptable.proc[np].pid)
  /\ UNCHANGED <<nextpid, lk, panicked>>

\* exit's loop over the children, and the splice onto initproc's children
RECURSIVE reparent(_, _)
reparent(t, ch) ==
  IF ch = <<>> THEN t
  ELSE LET t1 == [t EXCEPT !.proc[Head(ch)].parent = initproc]
       IN reparent(IF t1.proc[Head(ch)].state = "ZOMBIE"
                   THEN wakeup1(t1, initproc) ELSE t1, Tail(ch))

\* variant of exit_t: a STRIDE process exits without returning its tickets
exit_t_keeps_tickets(t, p) ==
  LET t1 == wakeup1(t, t.proc[p].parent)
      t2 == reparent(t1, t1.proc[p].children)
      t3 == [t2 EXCEPT !.proc[initproc].children = @ \o t2.proc[p].children,
                       !.proc[p].children = <<>>]
      t4 == IF t3.proc[p].type = "MLFQ" THEN dequeue(t3, p) ELSE list_del(t3, p)
  IN [t4 EXCEPT !.proc[p].state = "ZOMBIE"]

exit_t(t, p) ==
  LET t1 == wakeup1(t, t.proc[p].parent)
      t2 == reparent(t1, t1.proc[p].children)
      t3 == [t2 EXCEPT !.proc[initproc].children = @ \o t2.proc[p].children,
                       !.proc[p].children = <<>>]
      t4 == IF t3.proc[p].type = "MLFQ" THEN dequeue(t3, p)
            ELSE list_del([t3 EXCEPT !.mlfq.tickets = @ + t3.proc[p].tickets], p)
  IN [t4 EXCEPT !.proc[p].state = "ZOMBIE"]

exit(c) ==
  /\ Running(c) /\ Free(ptable)
  /\ cpus[c].proc # initproc
  /\ sched(c, exit_t(ptable, cpus[c].proc), cpus[c].proc, "exit", 0, 0)

wait(c) ==
  /\ Running(c) /\ Free(ptable)
  /\ waitloop(c, ptable, cpus[c].proc)

\* variant of yield_t: the caller is left RUNNING
yield_t_keeps_running(t, p) ==
  [(IF t.proc[p].type = "STRIDE" THEN list_del(t, p) ELSE t)
     EXCEPT !.proc[p].context = "yield"]

yield_t(t, p) ==
  [(IF t.proc[p].type = "STRIDE" THEN list_del(t, p) ELSE t)
     EXCEPT !.proc[p].state = "RUNNABLE", !.proc[p].context = "yield"]

yield(c) ==
  /\ Running(c) /\ Free(ptable)
  /\ sched(c, yield_t(ptable, cpus[c].proc), cpus[c].proc, "yield", 0, 0)

kill_t(t, pid) ==
  LET hit == {p \in Procs : t.proc[p].pid = pid} IN
  IF hit = {} THEN t
  ELSE LET p == CHOOSE x \in hit : \A y \in hit : x <= y
           t1 == [t EXCEPT !.proc[p].killed = 1]
       IN IF t1.proc[p].state = "SLEEPING" THEN wake(t1, p) ELSE t1

kill(c, pid) ==
  /\ Running(c) /\ Free(ptable)
  /\ ptable' = kill_t(ptable, pid)
  /\ last' = Op("kill", cpus[c].proc, pid,
                IF \E p \in Procs : ptable.proc[p].pid = pid THEN 0 ELSE -1)
  /\ UNCHANGED <<nextpid, cpus, lk, panicked>>

(***************************************************************************)
(* sleep(chan, lk) and wakeup(chan) with a spinlock lk other than          *)
(* ptable.lock, as their callers use them: the sleeper takes lk and calls  *)
(* sleep; the waker takes lk, calls wakeup and releases lk.                *)
(***************************************************************************)
sleep_lk(c) ==
  /\ Running(c) /\ lk = NONE
  /\ lk' = c
  /\ cpus' = [cpus EXCEPT ![c].pc = "sleep"]
  /\ last' = Op("acquire_lk", cpus[c].proc, 0, 0)
  /\ UNCHANGED <<ptable, nextpid, panicked>>

\* variant of sleep_acquire: sleep goes on to release lk without having
\* taken ptable.lock
sleep_acquire_nolock(c) ==
  /\ panicked = "" /\ cpus[c].pc = "sleep"
  /\ cpus' = [cpus EXCEPT ![c].pc = "sleep_locked"]
  /\ last' = Op("sleep_acquire", cpus[c].proc, 0, 0)
  /\ UNCHANGED <<ptable, nextpid, lk, panicked>>

\* sleep: acquire(&ptable.lock)
sleep_acquire(c) ==
  /\ panicked = "" /\ cpus[c].pc = "sleep" /\ Free(ptable)
  /\ ptable' = [ptable EXCEPT !.lock = c]
  /\ cpus' = [cpus EXCEPT ![c].pc = "sleep_locked"]
  /\ last' = Op("sleep_acquire", cpus[c].proc, 0, 0)
  /\ UNCHANGED <<nextpid, lk, panicked>>

\* sleep: release(lk)
sleep_release(c) ==
  /\ panicked = "" /\ cpus[c].pc = "sleep_locked"
  /\ lk' = NONE
  /\ cpus' = [cpus EXCEPT ![c].pc = "sleep_go"]
  /\ last' = Op("sleep_release", cpus[c].proc, 0, 0)
  /\ UNCHANGED <<ptable, nextpid, panicked>>

\* sleep: go to sleep and switch to the scheduler
sleep(c, chan) ==
  /\ panicked = "" /\ cpus[c].pc = "sleep_go" /\ ptable.lock = c
  /\ LET p == cpus[c].proc IN
     sched(c, sleep_body([ptable EXCEPT !.proc[p].context = "sleep"], p, chan),
           p, "sleep", chan, 0)

\* sleep, after it was woken and released ptable.lock: acquire(lk); the
\* caller then releases lk
sleep_reacquire(c) ==
  /\ panicked = "" /\ cpus[c].pc = "reacquire" /\ lk = NONE
  /\ cpus' = [cpus EXCEPT ![c].pc = "user"]
  /\ last' = Op("woken", cpus[c].proc, 0, 0)
  /\ UNCHANGED <<ptable, nextpid, lk, panicked>>

wakeup_lk(c) ==
  /\ Running(c) /\ lk = NONE
  /\ lk' = c
  /\ cpus' = [cpus EXCEPT ![c].pc = "wakeup"]
  /\ last' = Op("acquire_lk", cpus[c].proc, 1, 0)
  /\ UNCHANGED <<ptable, nextpid, panicked>>

wakeup(c, chan) ==
  /\ panicked = "" /\ cpus[c].pc = "wakeup" /\ Free(ptable)
  /\ ptable' = wakeup1(ptable, chan)
  /\ lk' = NONE
  /\ cpus' = [cpus EXCEPT ![c].pc = "user"]
  /\ last' = Op("wakeup", cpus[c].proc, chan, 0)
  /\ UNCHANGED <<nextpid, panicked>>

\* operations a CPU starts: one iteration of its scheduler loop, or a system
\* call (or timer yield) of the process it runs
Enter(c) ==
  \/ scheduler(c)
  \/ yield(c)
  \/ fork_alloc(c)
  \/ exit(c)
  \/ wait(c)
  \/ inctick(c)
  \/ \E share \in Shares : set_cpu_share(c, share)
  \/ \E pid \in 1 .. nextpid : kill(c, pid)
  \/ sleep_lk(c)
  \/ wakeup_lk(c)

\* the later steps of fork, sleep and wakeup
Continue(c) ==
  \/ fork_fail(c)
  \/ fork(c)
  \/ sleep_acquire(c)
  \/ sleep_release(c)
  \/ \E chan \in Chans : sleep(c, chan)
  \/ sleep_reacquire(c)
  \/ \E chan \in Chans : wakeup(c, chan)

Next ==
  \E c \in 1 .. ncpu :
    \/ budget > 0 /\ budget' = budget - 1 /\ ncpu' = ncpu /\ Enter(c)
    \/ UNCHANGED <<budget, ncpu>> /\ Continue(c)

Spec == Init /\ [][Next]_vars
SpecUP == InitUP /\ [][Next]_vars

(***************************************************************************)
(* One processor and the calls that move a process between the level       *)
(* queues, the Stride sets and the sleep list, explored over more          *)
(* operations: far enough for the priority boost and the overflow rebase.  *)
(***************************************************************************)
EnterDeep(c) ==
  \/ scheduler(c)
  \/ yield(c)
  \/ fork_alloc(c)
  \/ exit(c)
  \/ set_cpu_share(c, 60)
  \/ sleep_lk(c)
  \/ wakeup_lk(c)

ContinueDeep(c) ==
  \/ fork(c)
  \/ sleep_acquire(c)
  \/ sleep_release(c)
  \/ \E chan \in Chans : sleep(c, chan)
  \/ sleep_reacquire(c)
  \/ \E chan \in Chans : wakeup(c, chan)

NextDeep ==
  \E c \in 1 .. ncpu :
    \/ budget > 0 /\ budget' = budget - 1 /\ ncpu' = ncpu /\ EnterDeep(c)
    \/ UNCHANGED <<budget, ncpu>> /\ ContinueDeep(c)

InitDeep == Boot(1, MaxOpsDeep)
SpecDeep == InitDeep /\ [][NextDeep]_vars

(***************************************************************************)
(* The heap on its own, on one processor: HeapProcs processes take Stride  *)
(* shares, are pushed by stridelogic when they leave the processor, popped *)
(* by the scheduler, rebased, and exit.  The pass a process is pushed with *)
(* is drawn from 0 .. MaxPass instead of being computed from its tickets,  *)
(* and the rebase is run whatever BARRIER is.                              *)
(***************************************************************************)
HeapPids == 1 .. HeapProcs

InitHeap ==
  /\ ptable = [pinit EXCEPT
                 !.proc = [p \in HeapPids |->
                             [proc0 EXCEPT !.state = "RUNNABLE", !.pid = p,
                                           !.context = "yield"]],
                 !.free = <<>>]
  /\ nextpid = HeapProcs + 1
  /\ ncpu = 1
  /\ cpus = [c \in {1} |-> Idle]
  /\ lk = NONE
  /\ panicked = ""
  /\ last = NoOp
  /\ budget = 0

\* scheduler: the MLFQ side is chosen and runs p, which calls set_cpu_share
heap_admit(p) ==
  /\ cpus[1].proc = NONE
  /\ ~(getminpass(ptable) < ptable.mlfq.pass)
  /\ ptable.proc[p].type = "MLFQ"
  /\ ptable' = [ptable EXCEPT !.proc[p].type = "STRIDE", !.proc[p].state = "RUNNING"]
  /\ cpus' = [cpus EXCEPT ![1] = User(p)]
  /\ last' = Op("set_cpu_share", p, 0, 0)
  /\ UNCHANGED <<nextpid, lk, panicked, ncpu, budget>>

\* scheduler: p = getminpass() < ptable.mlfq.pass ? popheap() : ...
heap_pop ==
  /\ cpus[1].proc = NONE
  /\ getminpass(ptable) < ptable.mlfq.pass
  /\ ptable' = [popheap_t(ptable) EXCEPT !.proc[popheap(ptable)].state = "RUNNING"]
  /\ cpus' = [cpus EXCEPT ![1] = User(popheap(ptable))]
  /\ last' = Op("popheap", popheap(ptable), 0, 0)
  /\ UNCHANGED <<nextpid, lk, panicked, ncpu, budget>>

\* scheduler: ... : mlfqselect(), which finds nothing; stridelogic(0)
heap_idle ==
  /\ cpus[1].proc = NONE
  /\ ~(getminpass(ptable) < ptable.mlfq.pass)
  /\ ptable' = stridelogic(ptable, NONE)
  /\ last' = Op("idle", NONE, 0, 0)
  /\ UNCHANGED <<nextpid, cpus, lk, panicked, ncpu, budget>>

\* stridelogic: the rebase loop, with the pass of the process that ran
heap_rebase ==
  /\ last.op = "popheap" /\ ptable.proc[last.p].pass > 0
  /\ ptable' = rebase(ptable, ptable.proc[last.p].pass)
  /\ last' = Op("rebase", last.p, 0, 0)
  /\ UNCHANGED <<nextpid, cpus, lk, panicked, ncpu, budget>>

\* stridelogic: p->pass += STRD(p->tickets); pushheap(p), for the process
\* that ran
heap_push(pass) ==
  /\ cpus[1].proc # NONE
  /\ LET p == cpus[1].proc IN
     ptable' = pushheap([ptable EXCEPT !.proc[p].pass = pass,
                                       !.proc[p].state = "RUNNABLE"], p)
  /\ cpus' = [cpus EXCEPT ![1] = Idle]
  /\ last' = Op("pushheap", NONE, 0, 0)
  /\ UNCHANGED <<nextpid, lk, panicked, ncpu, budget>>

\* the process that ran exits and is reaped: stridelogic does not push it,
\* freeproc clears its pass, and fork makes the slot an MLFQ process again
heap_exit ==
  /\ cpus[1].proc # NONE
  /\ LET p == cpus[1].proc IN
     ptable' = [ptable EXCEPT !.proc[p].pass = 0, !.proc[p].type = "MLFQ",
                              !.proc[p].state = "RUNNABLE"]
  /\ cpus' = [cpus EXCEPT ![1] = Idle]
  /\ last' = Op("exit", NONE, 0, 0)
  /\ UNCHANGED <<nextpid, lk, panicked, ncpu, budget>>

NextHeap ==
  \/ \E p \in HeapPids : heap_admit(p)
  \/ heap_pop
  \/ heap_idle
  \/ heap_rebase
  \/ \E pass \in 0 .. MaxPass : heap_push(pass)
  \/ heap_exit

SpecHeap == InitHeap /\ [][NextHeap]_vars

(***************************************************************************)
(* One processor that never halts: init forks up to NPROC - 1 children,    *)
(* processes take Stride shares, and every process is CPU-bound, leaving   *)
(* the processor only at the timer tick (yield).                           *)
(* mlfq.ticks is read by the code only modulo BOOSTINTERVAL (mlfqlogic);   *)
(* it is brought back into 0 .. BOOSTINTERVAL - 1 after each boost, so     *)
(* that the state space is finite.                                         *)
(***************************************************************************)
tickwrap ==
  /\ ptable.mlfq.ticks >= BOOSTINTERVAL
  /\ ptable' = [ptable EXCEPT !.mlfq.ticks = @ % BOOSTINTERVAL]
  /\ UNCHANGED <<nextpid, cpus, lk, panicked, last, budget, ncpu>>

FairShares == {30}

\* an action of the never-halting processor: A, with mlfq.ticks in range
Forever(A) ==
  ptable.mlfq.ticks < BOOSTINTERVAL /\ A /\ UNCHANGED <<budget, ncpu>>

NextFair ==
  \/ tickwrap
  \/ Forever(scheduler(1))
  \/ Forever(yield(1))
  \/ Forever(fork_alloc(1))
  \/ Forever(fork(1))
  \/ \E share \in FairShares : Forever(set_cpu_share(1, share))

InitFair == Boot(1, 0)

\* A step that the history records under one of the names in ops, and that
\* leaves ptable.lock free and the processor in its scheduler or in user
\* code.  Of the steps of NextFair these are exactly the steps of the
\* actions that record those names.
Did(ops) ==
  /\ \E op \in ops : \E p, a \in 0 .. NPROC : \E r \in 0 .. NPROC + 1 :
       last' = Op(op, p, a, r)
  /\ (ptable' = ptable \/ ptable'.lock = NONE)
  /\ (cpus' = cpus \/ cpus'[1].pc \in {"scheduler", "user"})
  /\ UNCHANGED <<nextpid, lk, panicked, budget, ncpu>>

\* the timer tick: the running process is made to yield.  It can happen
\* exactly when yield(1) can.
tick ==
  /\ ptable.mlfq.ticks < BOOSTINTERVAL
  /\ Running(1) /\ Free(ptable)
  /\ Did({"yield"})

\* one iteration of the scheduler loop; it can happen when scheduler(1) can
loop ==
  /\ ptable.mlfq.ticks < BOOSTINTERVAL
  /\ panicked = "" /\ cpus[1].pc = "scheduler" /\ Free(ptable)
  /\ Did({"run", "idle"})

\* a fork that has taken its slot goes on; it can happen when fork(1) can
forked ==
  /\ ptable.mlfq.ticks < BOOSTINTERVAL
  /\ panicked = "" /\ cpus[1].pc = "fork" /\ Free(ptable)
  /\ Did({"fork"})

\* The scheduler loop never stops, the timer keeps ticking while a process
\* runs, and a system call that has begun goes on.
SpecFair ==
  /\ InitFair /\ [][NextFair]_vars
  /\ WF_vars(tickwrap)
  /\ WF_vars(loop)
  /\ WF_vars(tick)
  /\ WF_vars(forked)

(***************************************************************************)
(* Proportional share on one processor: init forks one or two children     *)
(* before its first tick, the first child takes a Stride share as soon as  *)
(* it runs, and from then on every process is CPU-bound and always         *)
(* runnable (it leaves the processor only at the timer tick).              *)
(***************************************************************************)
ShareSet == {20, 50, 80}
child == 2                      \* the slot of init's first child

share_fork ==
  /\ cpus[1].proc = initproc /\ ptable.mlfq.ticks = 0
  /\ ptable.free # <<>>
  /\ fork_alloc(1)

share_take(share) ==
  /\ cpus[1].proc = child /\ ptable.proc[child].type = "MLFQ"
  /\ set_cpu_share(1, share)

share_tick ==
  /\ cpus[1].proc = initproc => nextpid > 2
  /\ cpus[1].proc = child => ptable.proc[child].type = "STRIDE"
  /\ yield(1)

NextShare ==
  \/ /\ budget > 0 /\ budget' = budget - 1 /\ ncpu' = ncpu
     /\ \/ scheduler(1)
        \/ share_fork
        \/ \E share \in ShareSet : share_take(share)
        \/ share_tick
  \/ UNCHANGED <<budget, ncpu>> /\ fork(1)

InitShare == Boot(1, MaxOpsShare)
SpecShare == InitShare /\ [][NextShare]_vars

(***************************************************************************)
(* Parents and children on one processor: fork, exit, wait and kill, with  *)
(* the timer tick and the scheduler loop, explored far enough for init to  *)
(* fork two children, both to exit, and init to wait three times.          *)
(***************************************************************************)
EnterWait(c) ==
  \/ scheduler(c)
  \/ yield(c)
  \/ fork_alloc(c)
  \/ exit(c)
  \/ wait(c)
  \/ \E pid \in 1 .. nextpid : kill(c, pid)

NextWait ==
  \/ budget > 0 /\ budget' = budget - 1 /\ ncpu' = ncpu /\ EnterWait(1)
  \/ UNCHANGED <<budget, ncpu>> /\ fork(1)

InitWait == Boot(1, MaxOpsWait)
SpecWait == InitWait /\ [][NextWait]_vars

(***************************************************************************)
(* Two processors over a whole boost period: the scheduler loop and the    *)
(* timer tick run freely until mlfq.ticks reaches BOOSTINTERVAL, and       *)
(* MaxCallsSMP system calls (fork, exit, kill, set_cpu_share, sleep,       *)
(* wakeup) or idle scheduler iterations are made in between.               *)
(***************************************************************************)
\* the scheduler's choice is a process it will run
willrun(t) ==
  LET strideside == getminpass(t) < t.mlfq.pass
      p == IF strideside THEN popheap(t) ELSE mlfqselect(t)
  IN p # NONE /\ t.proc[p].state = "RUNNABLE"

CallSMP(c) ==
  \/ ~willrun(ptable) /\ scheduler(c)
  \/ fork_alloc(c)
  \/ exit(c)
  \/ \E pid \in 1 .. nextpid - 1 : kill(c, pid)
  \/ set_cpu_share(c, 60)
  \/ sleep_lk(c)
  \/ wakeup_lk(c)

StepSMP(c) ==
  \/ willrun(ptable) /\ scheduler(c)
  \/ ptable.mlfq.ticks < BOOSTINTERVAL /\ yield(c)
  \/ fork(c)
  \/ sleep_acquire(c)
  \/ sleep_release(c)
  \/ sleep(c, CHAN)
  \/ sleep_reacquire(c)
  \/ wakeup(c, CHAN)

NextSMP ==
  \E c \in 1 .. ncpu :
    \/ budget > 0 /\ budget' = budget - 1 /\ ncpu' = ncpu /\ CallSMP(c)
    \/ UNCHANGED <<budget, ncpu>> /\ StepSMP(c)

InitSMP == Boot(2, MaxCallsSMP)
SpecSMP == InitSMP /\ [][NextSMP]_vars

(***************************************************************************)
(* Properties.                                                             *)
(***************************************************************************)
Live(t, p) == t.proc[p].state \in {"RUNNABLE", "RUNNING", "SLEEPING"}

RECURSIVE stridetickets(_, _)
stridetickets(t, n) ==
  IF n = 0 THEN 0
  ELSE stridetickets(t, n - 1)
       + (IF t.proc[n].type = "STRIDE" /\ Live(t, n) THEN t.proc[n].tickets ELSE 0)

\* C1: whenever ptable.lock is free, mlfq.tickets plus the tickets of every
\* STRIDE process that is RUNNABLE, RUNNING or SLEEPING is 100.
C1_TicketConservation ==
  ptable.lock = NONE => ptable.mlfq.tickets + stridetickets(ptable, NPROC) = 100

\* a STRIDE process has exited and given its tickets back while another
\* STRIDE process still holds a share
C1_Witness ==
  /\ ptable.lock = NONE
  /\ \E p \in Procs : /\ ptable.proc[p].type = "STRIDE"
                      /\ ptable.proc[p].state = "ZOMBIE"
                      /\ ptable.proc[p].tickets > 0
  /\ \E q \in Procs : ptable.proc[q].type = "STRIDE" /\ Live(ptable, q)

\* C2: mlfq.tickets is at least RESERVE and at most 100 in every state.
C2_MlfqReserve ==
  ptable.mlfq.tickets >= RESERVE /\ ptable.mlfq.tickets <= 100

\* a process that is already STRIDE has changed its share, and the MLFQ side
\* is down to exactly RESERVE tickets
C2_Witness ==
  /\ last.op = "set_cpu_share" /\ last.ret = 0
  /\ ptable.mlfq.tickets = RESERVE
  /\ Cardinality({p \in Procs : ptable.proc[p].type = "STRIDE" /\ Live(ptable, p)}) >= 2

\* C3: set_cpu_share(share) returns -1 exactly when share < 1, share >
\* 100 - RESERVE, or mlfq.tickets plus the caller's own Stride tickets minus
\* share is below RESERVE, and then changes nothing; otherwise it returns 0.
C3_SetCpuShareReturn ==
  [][last'.op = "set_cpu_share" =>
       LET p == last'.p
           share == last'.arg
           own == IF ptable.proc[p].type = "STRIDE" THEN ptable.proc[p].tickets ELSE 0
           bad == \/ share < 1
                  \/ share > 100 - RESERVE
                  \/ (ptable.mlfq.tickets + own) - share < RESERVE
       IN /\ (last'.ret = -1) <=> bad
          /\ ~bad => last'.ret = 0
          /\ bad => /\ ptable'.mlfq.tickets = ptable.mlfq.tickets
                    /\ ptable'.proc[p].type = ptable.proc[p].type
                    /\ ptable'.proc[p].tickets = ptable.proc[p].tickets
                    /\ ptable'.proc[p].pass = ptable.proc[p].pass
                    /\ ptable'.mlfq.queue = ptable.mlfq.queue
                    /\ ptable'.stride.run = ptable.stride.run]_vars

\* a STRIDE caller asked for a share in range and was refused for the reserve
C3_Witness ==
  /\ last.op = "set_cpu_share" /\ last.ret = -1
  /\ last.arg >= 1 /\ last.arg <= 100 - RESERVE
  /\ ptable.proc[last.p].type = "STRIDE"

\* the number of linked lists p's node is on, and of heap slots that hold p
RECURSIVE onqueues(_, _, _)
onqueues(t, p, l) ==
  IF l = QSIZE THEN 0 ELSE Count(t.mlfq.queue[l], p) + onqueues(t, p, l + 1)

onlists(t, p) ==
  Count(t.free, p) + Count(t.stride.run, p) + Count(t.sleep, p) + onqueues(t, p, 0)

inheap(t, p) == Count(t.stride.minheap, p)

\* C4 as stated: whenever ptable.lock is free, no process is in more than one
\* of the free list, the level queues, the heap, the run list and the sleep
\* list, and every process that is neither UNUSED nor ZOMBIE is in exactly one.
C4_Original ==
  ptable.lock = NONE =>
    \A p \in Procs :
      /\ onlists(ptable, p) + inheap(ptable, p) <= 1
      /\ ptable.proc[p].state \notin {"UNUSED", "ZOMBIE"}
           => onlists(ptable, p) + inheap(ptable, p) = 1

\* C4 (amended): whenever ptable.lock is free, a SLEEPING STRIDE process is
\* on the sleep list and in the heap, once each, and nowhere else; every
\* other process is in at most one of the sets, in exactly one if it is
\* RUNNABLE, RUNNING or SLEEPING, and in none if it is EMBRYO.
C4_Disjoint ==
  ptable.lock = NONE =>
    \A p \in Procs :
      LET n == onlists(ptable, p) + inheap(ptable, p) IN
      IF ptable.proc[p].state = "SLEEPING" /\ ptable.proc[p].type = "STRIDE"
      THEN Count(ptable.sleep, p) = 1 /\ inheap(ptable, p) = 1 /\ n = 2
      ELSE /\ n <= 1
           /\ Live(ptable, p) => n = 1
           /\ ptable.proc[p].state = "EMBRYO" => n = 0

\* a STRIDE process that slept has just been woken (by wakeup or kill) and
\* has not run since
C4_Witness ==
  /\ ptable.lock = NONE
  /\ last.op \in {"wakeup", "kill"}
  /\ \E p \in Procs : /\ ptable.proc[p].type = "STRIDE"
                      /\ ptable.proc[p].state = "RUNNABLE"
                      /\ ptable.proc[p].chan # 0

HeapOK(t) ==
  \A i \in 2 .. Len(t.stride.minheap) :
    t.proc[t.stride.minheap[i \div 2]].pass <= t.proc[t.stride.minheap[i]].pass

\* C5: after every pushheap, popheap and rebase, minheap[i/2].pass <=
\* minheap[i].pass for every i in 2 .. size, and the process popheap returned
\* has a pass no greater than that of any process left in the heap.
C5_HeapProperty ==
  /\ HeapOK(ptable)
  /\ last.op = "popheap" =>
       \A i \in 1 .. Len(ptable.stride.minheap) :
         ptable.proc[last.p].pass <= ptable.proc[ptable.stride.minheap[i]].pass

\* popheap has just taken the minimum out of a full heap whose passes differ:
\* the last element was sifted down past two levels' worth of slots
C5_Witness ==
  /\ last.op = "popheap"
  /\ Len(ptable.stride.minheap) = HeapProcs - 1
  /\ \E i \in 1 .. Len(ptable.stride.minheap) :
       ptable.proc[last.p].pass < ptable.proc[ptable.stride.minheap[i]].pass
  /\ ptable.proc[ptable.stride.minheap[2]].pass > ptable.proc[ptable.stride.minheap[3]].pass

\* C6: for every level l, pin[l] is the header of queue[l] or the node of a
\* process linked in queue[l], in every state.
C6_PinValid ==
  \A l \in Levels :
    ptable.mlfq.pin[l] = QHead(l) \/ InSeq(ptable.mlfq.queue[l], ptable.mlfq.pin[l])

\* the priority boost has just spliced the lower queues onto level 0, and
\* pin[0] rests on a process there
C6_Witness ==
  /\ last.op \in {"yield", "sleep", "exit"}
  /\ ptable.mlfq.ticks > 0 /\ ptable.mlfq.ticks % BOOSTINTERVAL = 0
  /\ Len(ptable.mlfq.queue[0]) >= 2
  /\ ptable.mlfq.pin[0] \in Procs
  /\ \E p \in Procs : ptable.proc[p].state = "SLEEPING"

\* the MLFQ processes of the ready set and of the sleep list
mlfqprocs(t) ==
  {p \in Procs : /\ t.proc[p].type = "MLFQ"
                 /\ \/ InSeq(t.sleep, p)
                    \/ \E l \in Levels : InSeq(t.mlfq.queue[l], p)}

\* C7: right after an mlfqlogic call that brings mlfq.ticks to a multiple of
\* BOOSTINTERVAL, every MLFQ process in a level queue or on the sleep list
\* has privlevel 0 and ticks 0.
C7_BoostReset ==
  [][(ptable'.mlfq.ticks # ptable.mlfq.ticks
      /\ ptable'.mlfq.ticks % BOOSTINTERVAL = 0)
     => \A p \in mlfqprocs(ptable') :
          ptable'.proc[p].privlevel = 0 /\ ptable'.proc[p].ticks = 0]_vars

\* C8: right after stridelogic has rebased (mlfq.pass went down), mlfq.pass
\* and the pass of every live STRIDE process lie in 0 .. BARRIER.  stridelogic
\* goes on to advance the pass of what ran by its stride; the value between
\* the rebase and that advance is the one looked at.
C8_RebaseBounds ==
  [][ptable'.mlfq.pass < ptable.mlfq.pass =>
       LET t == ptable'
           ran == last'.p
           mlfqran == ran = NONE \/ t.proc[ran].type = "MLFQ"
           mpass == t.mlfq.pass - (IF mlfqran THEN STRD(t.mlfq.tickets) ELSE 0)
           pass(p) == IF p = ran /\ InSeq(t.stride.minheap, p)
                      THEN t.proc[p].pass - STRD(t.proc[p].tickets)
                      ELSE t.proc[p].pass
       IN /\ mpass >= 0 /\ mpass <= BARRIER
          /\ \A p \in Procs :
               t.proc[p].type = "STRIDE" /\ Live(t, p)
                 => pass(p) >= 0 /\ pass(p) <= BARRIER]_vars

\* the processors that are inside sleep(chan, lk): lk taken by the caller,
\* the process not yet SLEEPING
insleep(c) == cpus[c].pc \in {"sleep", "sleep_locked", "sleep_go"}

\* C9: from its release of lk until it is SLEEPING the sleeper holds
\* ptable.lock; so when wakeup(chan) runs under lk and ptable.lock no process
\* is part-way into sleep, and every process sleeping on chan is on the sleep
\* list and is made RUNNABLE.
C9_NoLostWakeup ==
  /\ [](\A c \in 1 .. ncpu : cpus[c].pc \in {"sleep_locked", "sleep_go"}
                              => ptable.lock = c)
  /\ [][last'.op = "wakeup" =>
          /\ \A c \in 1 .. ncpu : ~insleep(c)
          /\ \A p \in Procs :
               ptable.proc[p].state = "SLEEPING" /\ ptable.proc[p].chan = last'.arg
                 => /\ InSeq(ptable.sleep, p)
                    /\ ptable'.proc[p].state = "RUNNABLE"
                    /\ ~InSeq(ptable'.sleep, p)]_vars

\* with two processors: a wakeup has made a process that slept on CHAN
\* RUNNABLE while the other processor was idle or running
C9_Witness ==
  /\ ncpu = 2
  /\ last.op = "wakeup"
  /\ \E p \in Procs : /\ ptable.proc[p].state = "RUNNABLE"
                      /\ ptable.proc[p].chan = CHAN
                      /\ ptable.proc[p].context = "sleep"

\* the processes a step woke
woken(t, u) ==
  {p \in Procs : t.proc[p].state = "SLEEPING" /\ u.proc[p].state # "SLEEPING"}

\* a woken process is RUNNABLE, off the sleep list and on its ready set
ready(u, p) ==
  /\ u.proc[p].state = "RUNNABLE"
  /\ ~InSeq(u.sleep, p)
  /\ u.proc[p].type = "MLFQ" =>
       /\ Count(u.mlfq.queue[u.proc[p].privlevel], p) = 1
       /\ onlists(u, p) = 1 /\ inheap(u, p) = 0
  /\ u.proc[p].type = "STRIDE" => inheap(u, p) = 1 /\ onlists(u, p) = 0

attail(u, p) ==
  LET q == u.mlfq.queue[u.proc[p].privlevel] IN Len(q) > 0 /\ q[Len(q)] = p

killedsticky ==
  \A p \in Procs :
    ptable.proc[p].killed = 1 /\ ptable'.proc[p].killed = 0
      => ptable'.proc[p].state = "UNUSED" /\ InSeq(ptable'.free, p)

\* C10 as stated: after kill of a SLEEPING process or wakeup1(chan), each
\* process woken is RUNNABLE, off the sleep list, at the tail of
\* queue[privlevel] if MLFQ and once in the heap if STRIDE; killed is not
\* cleared before the slot is freed.
C10_Original ==
  [][/\ last'.op \in {"kill", "wakeup"} =>
          \A p \in woken(ptable, ptable') :
            /\ ready(ptable', p)
            /\ ptable'.proc[p].type = "MLFQ" => attail(ptable', p)
     /\ killedsticky]_vars

\* C10 (amended): each process woken is RUNNABLE, off the sleep list, once in
\* the heap if STRIDE, and if MLFQ linked once in queue[privlevel] behind
\* everything that queue held before the call: at its tail after kill, and
\* after wakeup1 the processes woken fill the tail of their queue in the
\* order in which the sleep list held them.  killed is not cleared before
\* the slot is freed.
C10_WakeReady ==
  [][/\ \A p \in woken(ptable, ptable') : ready(ptable', p)
     /\ last'.op \in {"kill", "wakeup"} =>
          /\ last'.op = "kill" =>
               \A p \in woken(ptable, ptable') :
                 ptable'.proc[p].type = "MLFQ" => attail(ptable', p)
          /\ \A l \in Levels :
               ptable'.mlfq.queue[l] =
                 ptable.mlfq.queue[l]
                 \o SelectSeq(ptable.sleep,
                              LAMBDA p : /\ p \in woken(ptable, ptable')
                                         /\ ptable.proc[p].type = "MLFQ"
                                         /\ ptable.proc[p].privlevel = l)
     /\ killedsticky]_vars

\* one wakeup has woken two MLFQ processes of the same level
C10_Witness ==
  /\ last.op = "wakeup"
  /\ \E p, q \in Procs :
       /\ p # q
       /\ ptable.proc[p].privlevel = ptable.proc[q].privlevel
       /\ \A x \in {p, q} : /\ ptable.proc[x].state = "RUNNABLE"
                            /\ ptable.proc[x].type = "MLFQ"
                            /\ ptable.proc[x].chan = CHAN
                            /\ ptable.proc[x].context = "sleep"

\* the Stride tickets a process holds
own(t, p) == IF t.proc[p].type = "STRIDE" THEN t.proc[p].tickets ELSE 0

\* C11: a successful set_cpu_share(s) leaves the caller holding exactly s
\* tickets and takes from mlfq.tickets the difference to what it held; exit
\* adds exactly the tickets the caller holds to mlfq.tickets; and no other
\* step changes mlfq.tickets or the tickets of a process that has not been
\* reaped.  So after one or more successful calls (the last with share s) and
\* exit, mlfq.tickets is back at its value before the first call, the other
\* processes' shares being fixed.
C11_RoundTrip ==
  [][LET p == last'.p
         shared == last'.op = "set_cpu_share" /\ last'.ret = 0
         exited == last'.op = "exit"
     IN /\ shared =>
             /\ ptable'.proc[p].type = "STRIDE"
             /\ ptable'.proc[p].tickets = last'.arg
             /\ ptable'.mlfq.tickets = ptable.mlfq.tickets + own(ptable, p) - last'.arg
        /\ exited =>
             /\ ptable'.mlfq.tickets = ptable.mlfq.tickets + own(ptable, p)
             /\ ptable'.proc[p].state = "ZOMBIE"
        /\ ~shared /\ ~exited => ptable'.mlfq.tickets = ptable.mlfq.tickets
        /\ \A q \in Procs :
             ptable'.proc[q].tickets # ptable.proc[q].tickets
               => \/ shared /\ q = p
                  \/ /\ last'.op = "wait" /\ last'.arg = q
                     /\ ptable'.proc[q].state = "UNUSED"]_vars

\* a STRIDE process that holds 20 tickets and has been scheduled as such has
\* exited, and mlfq.tickets is back at 100
C11_Witness ==
  /\ last.op = "exit"
  /\ ptable.proc[last.p].type = "STRIDE"
  /\ ptable.proc[last.p].state = "ZOMBIE"
  /\ ptable.proc[last.p].tickets = 20
  /\ ptable.proc[last.p].pass > 0
  /\ ptable.mlfq.tickets = 100

inwindow ==
  /\ cpus[1].proc = NONE /\ panicked = ""
  /\ ptable.proc[child].type = "STRIDE"

allticks == ((MaxOpsShare - budget) - (nextpid - 2) - 1) \div 2
mlfqticks == ptable.mlfq.ticks - 1
strideticks == (allticks - 1) - mlfqticks

\* the largest stride there is, and the most a pass can be when it is rebased
ShareSlack == BARRIER + STRD(RESERVE)

Abs(x) == IF x < 0 THEN 0 - x ELSE x

\* C13: on one processor, with one always-runnable STRIDE process holding s
\* tickets and always-runnable MLFQ processes holding the other 100 - s, in
\* every window the ticks of the two sides are in the ratio s : 100 - s up to
\* a constant: ticks times stride (the pass each side has been charged)
\* differ by no more than ShareSlack, however long the window and however
\* often the passes were rebased.
C13_ProportionalShare ==
  inwindow =>
    Abs(strideticks * STRD(ptable.proc[child].tickets)
        - mlfqticks * STRD(ptable.mlfq.tickets)) <= ShareSlack

\* C14: wait returns a pid only of a child of the caller that is ZOMBIE; the
\* reaped slot is then UNUSED, on the free list and off the caller's child
\* list, and its pid is held by no process and is never issued again, so no
\* second wait returns it; a ZOMBIE leaves that state only by being reaped
\* by wait; wait returns -1 when the caller has no children, and otherwise
\* only if the caller is killed; it sleeps only with a child that has not
\* exited.  So n children that exit are reaped by n waits returning
\* distinct pids, and the next wait returns -1.
C14_WaitReaps ==
  [][LET p == last'.p
         z == last'.arg
         r == last'.ret
         kids == ptable.proc[p].children
     IN /\ (last'.op = "wait" /\ r # -1) =>
             /\ InSeq(kids, z)
             /\ ptable.proc[z].parent = p
             /\ ptable.proc[z].state = "ZOMBIE"
             /\ ptable.proc[z].pid = r /\ r > 0 /\ r < nextpid
             /\ ptable'.proc[z].state = "UNUSED"
             /\ Count(List(ptable', FreeHead), z) = 1
             /\ ptable'.proc[p].children = Remove(kids, z)
             /\ \A q \in Procs : ptable'.proc[q].pid # r
        /\ (last'.op = "wait" /\ r = -1) =>
             /\ kids = <<>> \/ ptable.proc[p].killed = 1
             /\ \A q \in Procs : ptable.proc[q].state = "ZOMBIE"
                                   => ptable'.proc[q].state = "ZOMBIE"
        /\ (last'.op = "wait" /\ kids = <<>>) => r = -1
        /\ last'.op = "wait_sleep" =>
             /\ kids # <<>> /\ ptable.proc[p].killed = 0
             /\ \A i \in 1 .. Len(kids) : ptable.proc[kids[i]].state # "ZOMBIE"
        /\ \A q \in Procs :
             (ptable.proc[q].state = "ZOMBIE" /\ ptable'.proc[q].state # "ZOMBIE")
               => last'.op = "wait" /\ z = q /\ r = ptable.proc[q].pid
        /\ nextpid' >= nextpid
        /\ \A q, u \in Procs :
             (q # u /\ ptable'.proc[q].pid > 0) => ptable'.proc[q].pid # ptable'.proc[u].pid]_vars

\* init forked two children, both exited, two waits reaped them, and the
\* next wait of init, which was not killed, returned -1
C14_Witness ==
  /\ last = Op("wait", initproc, 0, -1)
  /\ ptable.proc[initproc].killed = 0
  /\ nextpid = 4
  /\ \A q \in Procs \ {initproc} : ptable.proc[q].state = "UNUSED"
  /\ Len(List(ptable, FreeHead)) = NPROC - 1

\* C15: a step in which stridelogic rebases (mlfq.pass goes down) changes
\* mlfq.pass and the pass of every live STRIDE process by the same amount,
\* the process that just left the processor included, so the difference of
\* any two of them is what it was.  stridelogic goes on to advance the pass
\* of what ran by its stride; that advance is taken off before comparing.
C15_RebaseOrder ==
  [][ptable'.mlfq.pass < ptable.mlfq.pass =>
       LET t == ptable'
           ran == last'.p
           mlfqran == ran = NONE \/ t.proc[ran].type = "MLFQ"
           mpass == t.mlfq.pass - (IF mlfqran THEN STRD(t.mlfq.tickets) ELSE 0)
           pass(p) == IF p = ran /\ InSeq(t.stride.minheap, p)
                      THEN t.proc[p].pass - STRD(t.proc[p].tickets)
                      ELSE t.proc[p].pass
       IN \A p \in Procs :
            (ptable.proc[p].type = "STRIDE" /\ Live(ptable, p)
             /\ t.proc[p].type = "STRIDE" /\ Live(t, p))
              => pass(p) - ptable.proc[p].pass = mpass - ptable.mlfq.pass]_vars

\* what ptable.lock protects: every process's state, the free list, the
\* level queues, the Stride heap and run list, and the sleep list
guarded(t) ==
  <<[p \in Procs |-> t.proc[p].state], t.free, t.mlfq.queue,
    t.stride.minheap, t.stride.run, t.sleep>>

\* C16: a step that writes a process's state or changes the free list, a
\* level queue, the Stride heap, the Stride run list or the sleep list is
\* taken by a processor that holds ptable.lock: the lock was free for it to
\* take, or it was already held by the processor running the process that
\* takes the step -- never by another processor.
C16_LockDiscipline ==
  [][guarded(ptable') # guarded(ptable) =>
       \/ ptable.lock = NONE
       \/ \E c \in 1 .. ncpu : ptable.lock = c /\ cpus[c].proc = last'.p]_vars

\* C17: whenever ptable.lock is free, a process is in the heap if and only
\* if it is STRIDE and RUNNABLE or SLEEPING, and it is there once; a STRIDE
\* process that is RUNNING is on the run list and not in the heap, and a
\* ZOMBIE is in neither.
C17_HeapMembership ==
  ptable.lock = NONE =>
    \A p \in Procs :
      LET n == Count(ptable.stride.minheap, p)
          st == ptable.proc[p].state
          stride == ptable.proc[p].type = "STRIDE"
      IN /\ n <= 1
         /\ n = 1 <=> (stride /\ st \in {"RUNNABLE", "SLEEPING"})
         /\ (stride /\ st = "RUNNING") => (Count(ptable.stride.run, p) = 1 /\ n = 0)
         /\ st = "ZOMBIE" => (n = 0 /\ Count(ptable.stride.run, p) = 0)

\* with ptable.lock free, one STRIDE process is SLEEPING and in the heap
\* while another is RUNNING, on the run list
C17_Witness ==
  /\ ptable.lock = NONE
  /\ \E p, q \in Procs :
       /\ ptable.proc[p].type = "STRIDE" /\ ptable.proc[p].state = "SLEEPING"
       /\ InSeq(ptable.stride.minheap, p)
       /\ ptable.proc[q].type = "STRIDE" /\ ptable.proc[q].state = "RUNNING"
       /\ InSeq(ptable.stride.run, q)

\* the processes of level l in the order a walk from pin[l] meets them
walk(t, l) ==
  LET q == t.mlfq.queue[l]
      k == IF InSeq(q, t.mlfq.pin[l]) THEN IndexOf(q, t.mlfq.pin[l]) ELSE 1
  IN SubSeq(q, k, Len(q)) \o SubSeq(q, 1, k - 1)

runnableat(t, l) ==
  \E i \in 1 .. Len(t.mlfq.queue[l]) : t.proc[t.mlfq.queue[l][i]].state = "RUNNABLE"

\* C18: in a scheduler iteration that selects on the MLFQ side, the process
\* chosen is RUNNABLE (so not RUNNING), is queued at the lowest level that
\* holds a RUNNABLE process, is the first RUNNABLE one met walking that level
\* from its pin, and the pin of that level is left on it, the other pins
\* unchanged; no process is chosen only if no queued process is RUNNABLE.
C18_StrictPriority ==
  [][(last'.op \in {"run", "idle"} /\ ~(getminpass(ptable) < ptable.mlfq.pass)) =>
       LET t == ptable
           p == last'.p
       IN IF last'.op = "idle"
          THEN p = NONE /\ \A l \in Levels : ~runnableat(t, l)
          ELSE /\ t.proc[p].state = "RUNNABLE"
               /\ ptable'.proc[p].state = "RUNNING"
               /\ \E l \in Levels :
                    /\ InSeq(t.mlfq.queue[l], p)
                    /\ \A k \in Levels : k < l => ~runnableat(t, k)
                    /\ \A i \in 1 .. IndexOf(walk(t, l), p) - 1 :
                         t.proc[walk(t, l)[i]].state # "RUNNABLE"
                    /\ ptable'.mlfq.pin[l] = p
                    /\ \A k \in Levels : k # l => ptable'.mlfq.pin[k] = t.mlfq.pin[k]]_vars

\* the scheduler has chosen a process of level 1 while level 0 holds a
\* process that is not RUNNABLE (it is RUNNING on the other processor)
C18_Witness ==
  /\ last.op = "run"
  /\ InSeq(ptable.mlfq.queue[1], last.p)
  /\ ptable.proc[last.p].state = "RUNNING"
  /\ ptable.mlfq.pin[1] = last.p
  /\ ptable.mlfq.queue[0] # <<>>

\* the level a process that started at level 0 has reached after n ticks of
\* its own: TA(0), then TA(1), ... ticks at each level below the last
RECURSIVE levelafter(_, _)
levelafter(n, l) ==
  IF l = QSIZE - 1 \/ n < TA(l) THEN l ELSE levelafter(n - TA(l), l + 1)

boosted == /\ ptable'.mlfq.ticks # ptable.mlfq.ticks
           /\ ptable'.mlfq.ticks % BOOSTINTERVAL = 0

peers(t, p, q, l) ==
  /\ p # q /\ t.mlfq.queue[l] \in {<<p, q>>, <<q, p>>}
  /\ \A x \in {p, q} : t.proc[x].type = "MLFQ" /\ t.proc[x].state = "RUNNABLE"
  /\ \A k \in Levels : k < l => ~runnableat(t, k)
  /\ ~(getminpass(t) < t.mlfq.pass)
  /\ t.mlfq.ticks % BOOSTINTERVAL # 0

\* the scheduler iteration after the tick of p: p runs again while its ticks
\* at level l are not a multiple of TQ(l), and its peer q runs once they are
turnlaw ==
  \A p, q \in Procs : \A l \in Levels :
    (/\ last = Op("yield", p, 0, 0) /\ last'.op = "run"
     /\ peers(ptable, p, q, l)
     /\ ptable.proc[p].privlevel = l /\ ptable.proc[p].ticks > 0)
      => last'.p = (IF ptable.proc[p].ticks % TQ(l) = 0 THEN q ELSE p)

\* the scheduler iteration after the tick that demoted p from level l, where
\* it leaves q: q runs
leftbehind ==
  \A p, q \in Procs : \A l \in Levels :
    (/\ last = Op("yield", p, 0, 0) /\ last'.op = "run"
     /\ l < QSIZE - 1 /\ ptable.proc[p].privlevel = l + 1 /\ ptable.proc[p].ticks = 0
     /\ ptable.mlfq.queue[l] = <<q>>
     /\ ptable.proc[q].type = "MLFQ" /\ ptable.proc[q].state = "RUNNABLE"
     /\ \A k \in Levels : k < l => ~runnableat(ptable, k)
     /\ ~(getminpass(ptable) < ptable.mlfq.pass)
     /\ ptable.mlfq.ticks % BOOSTINTERVAL # 0)
      => last'.p = q

\* the tick that takes p to its allotment at level l, where it has one peer
\* q: the tick counts of the two at that level differ by at most TQ(l)
boundary ==
  \A p, q \in Procs : \A l \in Levels :
    (/\ last' = Op("yield", p, 0, 0)
     /\ l < QSIZE - 1 /\ ptable.proc[p].privlevel = l /\ ptable'.proc[p].privlevel = l + 1
     /\ p # q /\ ptable.mlfq.queue[l] \in {<<p, q>>, <<q, p>>}
     /\ ptable.proc[p].type = "MLFQ"
     /\ ptable.proc[q].type = "MLFQ" /\ ptable.proc[q].state = "RUNNABLE"
     /\ \A k \in Levels : k < l => ~runnableat(ptable, k)
     /\ ptable.stride.minheap = <<>> /\ ptable.stride.run = <<>>)
      => TA(l) - ptable.proc[q].ticks <= TQ(l)

C21_NoPanic ==
  /\ panicked = ""
  /\ last.op = "yield" => ptable.proc[last.p].state = "RUNNABLE"
  /\ last.op \in {"sleep", "wait_sleep"} => ptable.proc[last.p].state = "SLEEPING"
  /\ last.op = "exit" => ptable.proc[last.p].state = "ZOMBIE"

\* the tick of one processor has boosted the priorities while the other
\* processor is running an MLFQ process
C21_Witness ==
  /\ last.op = "yield"
  /\ ptable.mlfq.ticks = BOOSTINTERVAL
  /\ ptable.proc[last.p].type = "MLFQ"
  /\ \E c \in 1 .. ncpu :
       /\ cpus[c].proc # NONE /\ cpus[c].proc # last.p
       /\ ptable.proc[cpus[c].proc].state = "RUNNING"
       /\ ptable.proc[cpus[c].proc].type = "MLFQ"

====
